---- MODULE Spec2Model ----
(***************************************************************************)
(* State-machine model of the streaming transcription session coordinator  *)
(* of mac-dictation: audio.Recorder, transcription.DeepgramService with    *)
(* its receive loops, the App controller (StartRecording, StopRecording,   *)
(* CancelRecording, SelectThread), persistTranscription and the            *)
(* thread/message store.                                                   *)
(*                                                                         *)
(* Text is a sequence of string tokens: a fragment, " " or "\n".  The      *)
(* strings.Builder of DeepgramService is such a sequence; the Go string    *)
(* "" is the empty sequence.                                               *)
(*                                                                         *)
(* The recorder's audioBuffer is its length in units of                    *)
(* MaxTranscriptionBytes, rounded up: 0 is empty, 1 is a recording within  *)
(* the cap, 2 one that exceeds it.                                         *)
(*                                                                         *)
(* Identifiers of connections, channels and devices are the number of the  *)
(* UI call that created them; 0 is the nil handle (for channels: the pair  *)
(* of channels made by NewDeepgramService).                                *)
(*                                                                         *)
(* A receive loop closes the done channel that StartStream made in the     *)
(* same call (defer close(s.done) is evaluated when the goroutine starts), *)
(* but sends its error to whatever channel s.err names when it fails.      *)
(***************************************************************************)
EXTENDS Integers, Sequences, FiniteSets, TLC

\* Bounds of the model.
MaxCalls == 3
MaxEvents == 2
MaxInFlight == 2
MaxRows == 2

\* app.go: the cap on a recording's byte length, as the unit of audioBuffer.
MaxTranscriptionBytes == 1

Slots == 1..MaxInFlight
Words == {"hello", "world"}

\* A frame read from the backend: Results (final or interim, the transcript
\* of the first alternative, possibly empty) or UtteranceEnd.
Events ==
  [type : {"final"}, text : Words \cup {""}]
    \cup [type : {"interim"}, text : {"hello"}]
    \cup [type : {"ue"}, text : {""}]

VARIABLES
  rec,            \* audio.Recorder fields
  mu,             \* Recorder.mu: "free", or "leaked" (locked by a call that returned)
  devices,        \* capture devices that are initialised and started
  dg,             \* DeepgramService fields: conn, done, err, onResult, transcript;
                  \* results: the frames handled since the callback was registered
  conns,          \* the websocket connections still open or still read by a loop
  received,       \* number of frames read that carried text or an utterance end
  want,           \* what the frames read on connection dg.conn should add up to
  doneClosed,     \* done channels that have been closed
  errFull,        \* err channels (capacity 1) that hold an error
  calls,          \* UI calls in flight or last returned, per slot
  callCount,      \* number of UI calls issued
  conc,           \* whether UI calls may overlap
  long,           \* whether a recording may outgrow MaxTranscriptionBytes
  activeThreadID, \* App.activeThreadID (0 is nil)
  threads,        \* rows of table threads, index = id
  messages,       \* rows of table messages, index = id
  titleTasks,     \* thread ids with a running generateTitleAsync
  improveTasks,   \* the Message each running ImproveMessageText goroutine holds
  progress        \* on: whether progressLoop goroutines are followed; tasks: the
                  \* Start calls whose progressLoop is running

vars == <<rec, mu, devices, dg, conns, received, want, doneClosed, errFull,
          calls, callCount, conc, long, activeThreadID, threads, messages,
          titleTasks, improveTasks, progress>>

recorderVars == <<rec, mu, devices>>
streamVars == <<dg, conns, received, want, doneClosed, errFull>>
storeVars == <<activeThreadID, threads, messages, titleTasks, improveTasks>>

----------------------------------------------------------------------------
\* audio.Recorder

NewRecorder ==
  [isRecording |-> FALSE, audioBuffer |-> 0, recordingStart |-> 0, device |-> 0]

\* A bug variant of RecStart: the buffer and start time are reset before the
\* isRecording check.
RecStartResetFirst(r, t, devOk, d) ==
  LET r1 == [r EXCEPT !.audioBuffer = 0, !.recordingStart = t]
  IN IF r.isRecording
       THEN [rec |-> r1, err |-> "already recording"]
       ELSE IF ~devOk
         THEN [rec |-> r1, err |-> "failed to initialize capture device"]
         ELSE [rec |-> [r1 EXCEPT !.device = d, !.isRecording = TRUE], err |-> ""]

\* Recorder.StartRecording under r.mu; devOk: InitDevice and device.Start
\* succeed; d: the new device handle.
RecStart(r, t, devOk, d) ==
  IF r.isRecording
    THEN [rec |-> r, err |-> "already recording"]
    ELSE LET r1 == [r EXCEPT !.audioBuffer = 0, !.recordingStart = t]
         IN IF ~devOk
              THEN [rec |-> r1, err |-> "failed to initialize capture device"]
              ELSE [rec |-> [r1 EXCEPT !.device = d, !.isRecording = TRUE],
                    err |-> ""]

\* A bug variant of RecStop: the not-recording return forgets the Unlock, as
\* the device-stop failure return does.
RecStopLeakOnIdle(r, stopOk) ==
  IF ~r.isRecording
    THEN [rec |-> r, mu |-> "leaked", err |-> "not recording", audio |-> 0]
    ELSE IF r.device # 0 /\ ~stopOk
      THEN [rec |-> r, mu |-> "leaked",
            err |-> "failed to stop capture device on stop", audio |-> 0]
      ELSE [rec |-> [r EXCEPT !.device = 0, !.isRecording = FALSE,
                              !.audioBuffer = 0],
            mu |-> "free",
            err |-> IF r.audioBuffer = 0 THEN "no audio recorded" ELSE "",
            audio |-> r.audioBuffer]

\* A bug variant of RecStop: the zero-length check is missing and an empty
\* buffer is returned as a recording.
RecStopNoEmptyCheck(r, stopOk) ==
  IF ~r.isRecording
    THEN [rec |-> r, mu |-> "free", err |-> "not recording", audio |-> 0]
    ELSE IF r.device # 0 /\ ~stopOk
      THEN [rec |-> r, mu |-> "leaked",
            err |-> "failed to stop capture device on stop", audio |-> 0]
      ELSE [rec |-> [r EXCEPT !.device = 0, !.isRecording = FALSE,
                              !.audioBuffer = 0],
            mu |-> "free", err |-> "", audio |-> r.audioBuffer]

\* A bug variant of RecStop: isRecording is not cleared.
RecStopStaysRecording(r, stopOk) ==
  IF ~r.isRecording
    THEN [rec |-> r, mu |-> "free", err |-> "not recording", audio |-> 0]
    ELSE IF r.device # 0 /\ ~stopOk
      THEN [rec |-> r, mu |-> "leaked",
            err |-> "failed to stop capture device on stop", audio |-> 0]
      ELSE [rec |-> [r EXCEPT !.device = 0, !.audioBuffer = 0],
            mu |-> "free",
            err |-> IF r.audioBuffer = 0 THEN "no audio recorded" ELSE "",
            audio |-> r.audioBuffer]

\* Recorder.StopRecording; stopOk: device.Stop succeeds.  The device-stop
\* failure path returns without unlocking r.mu.
RecStop(r, stopOk) ==
  IF ~r.isRecording
    THEN [rec |-> r, mu |-> "free", err |-> "not recording", audio |-> 0]
    ELSE IF r.device # 0 /\ ~stopOk
      THEN [rec |-> r, mu |-> "leaked",
            err |-> "failed to stop capture device on stop", audio |-> 0]
      ELSE [rec |-> [r EXCEPT !.device = 0, !.isRecording = FALSE,
                              !.audioBuffer = 0],
            mu |-> "free",
            err |-> IF r.audioBuffer = 0 THEN "no audio recorded" ELSE "",
            audio |-> r.audioBuffer]

\* Recorder.CancelRecording (r.mu is released by defer on every path).
RecCancel(r, stopOk) ==
  IF ~r.isRecording
    THEN [rec |-> r, err |-> ""]
    ELSE IF r.device # 0 /\ ~stopOk
      THEN [rec |-> r, err |-> "failed to stop capture device on cancel"]
      ELSE [rec |-> [r EXCEPT !.device = 0, !.isRecording = FALSE,
                              !.audioBuffer = 0],
            err |-> ""]

----------------------------------------------------------------------------
\* transcription.DeepgramService

NewDeepgramService ==
  [conn |-> 0, done |-> 0, err |-> 0, onResult |-> FALSE, transcript |-> <<>>,
   results |-> <<>>]

NewConn(id) ==
  [open |-> TRUE, closeSent |-> FALSE, audio |-> FALSE, loop |-> "read",
   done |-> id, tgt |-> 0]

\* DeepgramService.StartStream: the channels are replaced before the dial;
\* the connection handle only when the dial succeeds.
StartStream(s, id, dialOk) ==
  LET s1 == [s EXCEPT !.done = id, !.err = id]
  IN IF ~dialOk
       THEN [dg |-> s1, err |-> "failed to connect to Deepgram API"]
       ELSE [dg |-> [s1 EXCEPT !.conn = id], err |-> ""]

\* The receive loop's handling of one frame (Results / UtteranceEnd cases).
Accumulate(t, e) ==
  IF e.type = "final" /\ e.text # ""
    THEN (IF Len(t) > 0 THEN Append(t, " ") ELSE t) \o <<e.text>>
    ELSE IF e.type = "ue" THEN Append(t, "\n") ELSE t

\* A bug variant of ResultCallback: interim fragments are not delivered.
ResultCallbackFinalsOnly(s, e) ==
  IF s.onResult /\ e.type = "final" /\ e.text # ""
    THEN [invoked |-> TRUE, text |-> e.text, isFinal |-> TRUE]
    ELSE [invoked |-> FALSE, text |-> "", isFinal |-> FALSE]

\* The receive loop's call of s.onResult for one frame: a Results frame with
\* a non-empty transcript, while a callback is registered.
ResultCallback(s, e) ==
  IF s.onResult /\ e.type \in {"final", "interim"} /\ e.text # ""
    THEN [invoked |-> TRUE, text |-> e.text, isFinal |-> e.type = "final"]
    ELSE [invoked |-> FALSE, text |-> "", isFinal |-> FALSE]

\* DeepgramService.SendChunk's error when there is no connection.
SendChunkErr(s) == IF s.conn = 0 THEN "connection not started" ELSE ""

\* DeepgramService.SendChunk: the chunk is written on the open connection;
\* without a connection it fails and the caller only logs the error.
SendChunk(s, cs) ==
  IF s.conn = 0 THEN cs ELSE [cs EXCEPT ![s.conn].audio = TRUE]

\* Connections whose loop has returned are garbage once they are closed or no
\* longer referenced by the service.
Prune(cs, s) ==
  [k \in {j \in DOMAIN cs : cs[j].loop # "ended" \/ (cs[j].open /\ j = s.conn)}
     |-> cs[k]]

\* Channels are garbage once neither the service, a blocked receive loop nor a
\* waiting EndStream refers to them.
LiveErr(full, s, cs) ==
  full \cap ({s.err} \cup {cs[k].tgt : k \in {j \in DOMAIN cs : cs[j].loop = "blocked"}})

LiveDone(closed, s, cls) ==
  closed \cap ({s.done} \cup {cls[c].wd : c \in {x \in DOMAIN cls : cls[x].pc = "end_wait"}})

\* A bug variant of EndStreamBegin: the check for a missing connection is
\* left out.
EndStreamBeginNoCheck(s, sendOk) ==
  IF ~sendOk THEN "failed to send CloseStream" ELSE ""

\* DeepgramService.EndStream up to and including the CloseStream message.
EndStreamBegin(s, sendOk) ==
  IF s.conn = 0 THEN "connection not started"
  ELSE IF ~sendOk THEN "failed to send CloseStream"
  ELSE ""

\* DeepgramService.EndStream after <-s.done: the select on s.err, the
\* teardown of the connection, and the read and reset of the accumulator.
EndStreamFinish(s, full) ==
  IF s.err \in full
    THEN [dg |-> [s EXCEPT !.conn = 0], full |-> full \ {s.err},
          text |-> <<>>, err |-> TRUE]
    ELSE [dg |-> [s EXCEPT !.conn = 0, !.transcript = <<>>], full |-> full,
          text |-> s.transcript, err |-> FALSE]

----------------------------------------------------------------------------
\* storage.ThreadService / storage.MessageService

DbFaults == {"none", "thread", "message", "touch"}

\* ThreadService.Lookup succeeds: the row exists and deleted_at IS NULL.
ThreadVisible(ts, id) == id \in 1..Len(ts) /\ ~ts[id].deleted

\* ThreadService.Persist of a thread without id: the inserted row.
\* titleAns, titleErr and titleEvent log the thread's generateTitleAsync: the
\* completion backend's answer ("none" while there is none, "unusable" for an
\* error or empty output, "title"), whether Lookup or Persist failed, and
\* whether thread:title-generated was emitted.  titleRead is the pinned flag
\* of the Thread struct that generateTitleAsync holds between its Lookup and
\* its Persist ("none" outside that window).
NewThread(name, t) ==
  [name |-> name, pinned |-> FALSE, createdAt |-> t, updatedAt |-> t,
   deleted |-> FALSE, titleAns |-> "none", titleErr |-> FALSE,
   titleEvent |-> FALSE, titleRead |-> "none"]

\* A bug variant of NewMessage: the transcript is also stored as the improved
\* text.
NewMessageImproved(tid, text) ==
  [threadId |-> tid, originalText |-> text, text |-> text, deleted |-> FALSE]

\* MessageService.Persist of a message without id: the inserted row.
NewMessage(tid, text) ==
  [threadId |-> tid, originalText |-> text, text |-> <<>>, deleted |-> FALSE]

\* A bug variant of TouchUpdatedAt: the UPDATE matches no row.
TouchNothing(ts, id, t) == ts

\* ThreadService.TouchUpdatedAt.
TouchUpdatedAt(ts, id, t) ==
  IF ThreadVisible(ts, id) THEN [ts EXCEPT ![id].updatedAt = t] ELSE ts

\* The Message a failed Scan leaves behind: every field zero, no id.
ZeroMessage ==
  [id |-> 0, threadId |-> 0, originalText |-> <<>>, text |-> <<>>,
   deleted |-> FALSE]

\* MessageService.Lookup; readOk: the query succeeds.  Only ErrNoRows is
\* returned as an error; with any other error the zero Message is returned
\* together with a nil error.
MessageLookup(ms, id, readOk) ==
  IF ~readOk THEN [err |-> FALSE, msg |-> ZeroMessage]
  ELSE IF id \in 1..Len(ms) /\ ~ms[id].deleted
    THEN [err |-> FALSE,
          msg |-> [id |-> id, threadId |-> ms[id].threadId,
                   originalText |-> ms[id].originalText, text |-> ms[id].text,
                   deleted |-> FALSE]]
    ELSE [err |-> TRUE, msg |-> ZeroMessage]

\* A bug variant of MessagePersist: the UPDATE stores the improved text as
\* original_text too.
MessagePersistOverwritesOriginal(ms, msg, readOk, writeOk) ==
  IF msg.id = 0
    THEN IF writeOk
           THEN [ms |-> Append(ms, [NewMessage(msg.threadId, msg.originalText)
                                      EXCEPT !.text = msg.text]),
                 err |-> FALSE]
           ELSE [ms |-> ms, err |-> TRUE]
    ELSE IF MessageLookup(ms, msg.id, readOk).err \/ ~writeOk
      THEN [ms |-> ms, err |-> TRUE]
      ELSE [ms |-> IF msg.id \in 1..Len(ms) /\ ~ms[msg.id].deleted
                     THEN [ms EXCEPT ![msg.id] =
                             [@ EXCEPT !.originalText = msg.text,
                                       !.text = msg.text,
                                       !.deleted = msg.deleted]]
                     ELSE ms,
            err |-> FALSE]

\* MessageService.Persist: an INSERT for a Message without id (deleted_at is
\* not among its columns), otherwise Lookup and an UPDATE of original_text,
\* text and deleted_at on the row if it is not soft-deleted.
MessagePersist(ms, msg, readOk, writeOk) ==
  IF msg.id = 0
    THEN IF writeOk
           THEN [ms |-> Append(ms, [NewMessage(msg.threadId, msg.originalText)
                                      EXCEPT !.text = msg.text]),
                 err |-> FALSE]
           ELSE [ms |-> ms, err |-> TRUE]
    ELSE IF MessageLookup(ms, msg.id, readOk).err \/ ~writeOk
      THEN [ms |-> ms, err |-> TRUE]
      ELSE [ms |-> IF msg.id \in 1..Len(ms) /\ ~ms[msg.id].deleted
                     THEN [ms EXCEPT ![msg.id] =
                             [@ EXCEPT !.originalText = msg.originalText,
                                       !.text = msg.text,
                                       !.deleted = msg.deleted]]
                     ELSE ms,
            err |-> FALSE]

\* ThreadService.Lookup; dbOk: the query succeeds.
ThreadLookup(ts, id, dbOk) ==
  IF dbOk /\ ThreadVisible(ts, id)
    THEN [err |-> FALSE,
          thread |-> [id |-> id, name |-> ts[id].name, pinned |-> ts[id].pinned,
                      deleted |-> FALSE]]
    ELSE [err |-> TRUE,
          thread |-> [id |-> 0, name |-> "", pinned |-> FALSE, deleted |-> FALSE]]

\* A bug variant of ThreadPersist: the UPDATE leaves updated_at as it is.
ThreadPersistKeepsTime(ts, th, t, dbOk) ==
  IF ThreadLookup(ts, th.id, dbOk).err
    THEN [ts |-> ts, err |-> TRUE]
    ELSE [ts |-> [ts EXCEPT ![th.id] = [@ EXCEPT !.name = th.name,
                                                 !.pinned = th.pinned]],
          err |-> FALSE]

\* ThreadService.Persist of a Thread with id: Lookup, then an UPDATE of name,
\* pinned and updated_at; deleted_at is not among the columns it sets.
ThreadPersist(ts, th, t, dbOk) ==
  IF ThreadLookup(ts, th.id, dbOk).err
    THEN [ts |-> ts, err |-> TRUE]
    ELSE [ts |-> [ts EXCEPT ![th.id] = [@ EXCEPT !.name = th.name,
                                                 !.pinned = th.pinned,
                                                 !.updatedAt = t]],
          err |-> FALSE]

\* ThreadService.Delete: Lookup, set DeletedAt on the struct, Persist.
ThreadDelete(ts, id, t, dbOk) ==
  LET l == ThreadLookup(ts, id, dbOk)
  IN IF l.err THEN [ts |-> ts, err |-> TRUE]
     ELSE ThreadPersist(ts, [l.thread EXCEPT !.deleted = TRUE], t, dbOk)

\* ThreadService.LookupAll (the ids listed by App.GetThreads).
LookupAll(ts) == {id \in 1..Len(ts) : ~ts[id].deleted}

\* App.GetMessages: Lookup of the thread, then LookupForThread.
GetMessages(ts, ms, id) ==
  IF ~ThreadVisible(ts, id) THEN [err |-> TRUE, ids |-> {}]
  ELSE [err |-> FALSE,
        ids |-> {m \in 1..Len(ms) : ms[m].threadId = id /\ ~ms[m].deleted}]

----------------------------------------------------------------------------
\* App (controller)

\* time.Now: a logical clock that advances with every UI call.
Now == callCount

IdleCall ==
  [op |-> "none", pc |-> "idle", id |-> 0, emitted |-> <<>>, wd |-> 0,
   wasRec |-> FALSE, recErr |-> "", ended |-> "none", text |-> <<>>,
   expect |-> <<>>, persErr |-> FALSE, newMsg |-> 0, dur |-> 0, audio |-> 0,
   arg |-> 0, res |-> "", isNew |-> FALSE, touchErr |-> FALSE, ui0 |-> "idle",
   ans |-> "none", event |-> FALSE, thread |-> 0,
   snap |-> [rec |-> FALSE, conn |-> 0, len |-> 0]]

\* useRecording's reaction to one notification (`error` only raises an alert
\* in App.tsx).
UiOn(state, e) ==
  IF e = "started" THEN "recording"
  ELSE IF e = "stopped" THEN (IF state = "recording" THEN "processing" ELSE state)
  ELSE IF e = "processing" THEN "processing"
  ELSE IF e \in {"completed", "empty"} THEN "idle"
  ELSE state

\* useRecording's state after the notifications es, starting from state.
RECURSIVE UiRun(_, _)
UiRun(state, es) ==
  IF es = <<>> THEN state ELSE UiRun(UiOn(state, Head(es)), Tail(es))

\* useRecording's state now, when UI calls do not overlap: the state the
\* latest call found, run through the notifications that call has emitted.
UiState ==
  LET last == CHOOSE c \in Slots : \A k \in Slots : calls[k].id <= calls[c].id
  IN UiRun(calls[last].ui0, calls[last].emitted)

NewCall(op) ==
  [IdleCall EXCEPT !.op = op, !.pc = "run", !.id = callCount + 1,
                   !.ui0 = UiState]

Returned(call) == call.pc \in {"idle", "done"}

\* App.updateTrayState ends in Recorder.GetStatus, which takes r.mu: with the
\* mutex leaked the handler never returns.
TrayPc(m) == IF m = "leaked" THEN "hung" ELSE "done"

\* A handler's tail: emit the notifications, then updateTrayState.
Finish(call, emits, m) ==
  [call EXCEPT !.emitted = @ \o emits, !.pc = TrayPc(m)]

\* A bug variant of AfterEndStream: the empty-result branch of StopRecording
\* lacks its return and falls through to the hand-off.
AfterEndStreamNoReturn(op, text, failed, m) ==
  IF op = "Start" THEN [emit |-> <<"error">>, pc |-> TrayPc(m)]
  ELSE IF op = "Cancel" THEN [emit |-> <<"stopped">>, pc |-> TrayPc(m)]
  ELSE LET e == IF failed THEN <<"error">> ELSE <<>>
       IN IF m = "leaked" THEN [emit |-> e, pc |-> "hung"]
          ELSE IF text = <<>>
            THEN [emit |-> e \o <<"empty", "processing">>, pc |-> "persist"]
            ELSE [emit |-> e \o <<"processing">>, pc |-> "persist"]

\* A bug variant of AfterEndStream: CancelRecording hands the transcript to
\* persistTranscription as StopRecording does.
AfterEndStreamCancelPersists(op, text, failed, m) ==
  IF op = "Start" THEN [emit |-> <<"error">>, pc |-> TrayPc(m)]
  ELSE LET e == IF failed THEN <<"error">> ELSE <<>>
       IN IF text = <<>>
            THEN IF op = "Cancel"
                   THEN [emit |-> <<"stopped">>, pc |-> TrayPc(m)]
                   ELSE IF m = "leaked" THEN [emit |-> e, pc |-> "hung"]
                        ELSE [emit |-> e \o <<"empty">>, pc |-> "done"]
            ELSE [emit |-> e \o <<"processing">>,
                  pc |-> IF m = "leaked" THEN "hung" ELSE "persist"]

\* A bug variant of AfterEndStream: CancelRecording emits nothing.
AfterEndStreamCancelSilent(op, text, failed, m) ==
  IF op = "Start" THEN [emit |-> <<"error">>, pc |-> TrayPc(m)]
  ELSE IF op = "Cancel" THEN [emit |-> <<>>, pc |-> TrayPc(m)]
  ELSE LET e == IF failed THEN <<"error">> ELSE <<>>
       IN IF text = <<>>
            THEN IF m = "leaked" THEN [emit |-> e, pc |-> "hung"]
                 ELSE [emit |-> e \o <<"empty">>, pc |-> "done"]
            ELSE [emit |-> e \o <<"processing">>,
                  pc |-> IF m = "leaked" THEN "hung" ELSE "persist"]

\* A bug variant of AfterEndStream: StopRecording starts the hand-off without
\* emitting transcription:processing.
AfterEndStreamNoProcessing(op, text, failed, m) ==
  IF op = "Start" THEN [emit |-> <<"error">>, pc |-> TrayPc(m)]
  ELSE IF op = "Cancel" THEN [emit |-> <<"stopped">>, pc |-> TrayPc(m)]
  ELSE LET e == IF failed THEN <<"error">> ELSE <<>>
       IN IF text = <<>>
            THEN IF m = "leaked" THEN [emit |-> e, pc |-> "hung"]
                 ELSE [emit |-> e \o <<"empty">>, pc |-> "done"]
            ELSE [emit |-> e,
                  pc |-> IF m = "leaked" THEN "hung" ELSE "persist"]

\* What each handler does once its EndStream call has returned (text, failed):
\* StartRecording's failure path reports the recorder's error,
\* CancelRecording emits recording:stopped, StopRecording reports an EndStream
\* error and then either announces the empty result or starts the hand-off.
\* Every path runs updateTrayState (before the empty event, after the others).
AfterEndStream(op, text, failed, m) ==
  IF op = "Start" THEN [emit |-> <<"error">>, pc |-> TrayPc(m)]
  ELSE IF op = "Cancel" THEN [emit |-> <<"stopped">>, pc |-> TrayPc(m)]
  ELSE LET e == IF failed THEN <<"error">> ELSE <<>>
       IN IF text = <<>>
            THEN IF m = "leaked" THEN [emit |-> e, pc |-> "hung"]
                 ELSE [emit |-> e \o <<"empty">>, pc |-> "done"]
            ELSE [emit |-> e \o <<"processing">>,
                  pc |-> IF m = "leaked" THEN "hung" ELSE "persist"]

After(call, text, failed, m) ==
  LET a == AfterEndStream(call.op, text, failed, m)
  IN [call EXCEPT !.emitted = @ \o a.emit, !.pc = a.pc, !.text = text]

\* The call of EndStream from a handler: either it fails at once, or the
\* CloseStream message is written and the handler blocks on <-s.done.
BeginEnd(call, s, cs, sendOk, m) ==
  IF EndStreamBegin(s, sendOk) # ""
    THEN [call |-> After([call EXCEPT !.ended = "err"], <<>>, TRUE, m),
          conns |-> cs]
    ELSE [call |-> [call EXCEPT !.pc = "end_wait", !.wd = s.done],
          conns |-> [cs EXCEPT ![s.conn].closeSent = TRUE]]

\* What a specification-conforming accumulator holds after one more frame:
\* the non-empty final fragments joined by single spaces (a space only
\* between two fragments), "\n" at each utterance boundary.
Joined(t, e) ==
  IF e.type = "final" /\ e.text # ""
    THEN (IF \E i \in 1..Len(t) : t[i] \in Words THEN Append(t, " ") ELSE t)
           \o <<e.text>>
    ELSE IF e.type = "ue" THEN Append(t, "\n") ELSE t

\* The fragments (without separators) of a text.
RECURSIVE FragmentsOf(_)
FragmentsOf(t) ==
  IF t = <<>> THEN <<>>
  ELSE IF Head(t) \in Words THEN <<Head(t)>> \o FragmentsOf(Tail(t))
  ELSE FragmentsOf(Tail(t))

----------------------------------------------------------------------------
InitState(overlap, over, ticking) ==
  /\ rec = NewRecorder
  /\ mu = "free"
  /\ devices = {}
  /\ dg = NewDeepgramService
  /\ conns = [k \in {} |-> NewConn(0)]
  /\ received = 0
  /\ want = <<>>
  /\ doneClosed = {}
  /\ errFull = {}
  /\ calls = [c \in Slots |-> IdleCall]
  /\ callCount = 0
  /\ conc = overlap
  /\ long = over
  /\ progress = [on |-> ticking, tasks |-> {}]
  /\ activeThreadID = 0
  /\ threads = <<>>
  /\ messages = <<>>
  /\ titleTasks = {}
  /\ improveTasks = <<>>

\* The UI issues one call at a time.
Init == InitState(FALSE, FALSE, FALSE)

\* Bound calls run on their own goroutines and may overlap.
InitConc == InitState(TRUE, FALSE, FALSE)

\* As Init, with recordings that may grow beyond MaxTranscriptionBytes.
InitLong == InitState(FALSE, TRUE, FALSE)

\* The databases NewApp may be handed: up to MaxRows threads, and up to
\* MaxRows messages under them, improved or not, soft-deleted or not.
StoredThreads ==
  {[i \in 1..n |-> NewThread("Untitled Chat", 0)] : n \in 0..MaxRows}

StoredMessages(ts) ==
  UNION {[1..n -> {[NewMessage(t, <<"hello">>) EXCEPT !.text = x, !.deleted = d] :
                     t \in 1..Len(ts), x \in {<<>>, <<"Improved">>},
                     d \in BOOLEAN}] : n \in 0..MaxRows}

\* The state after construction on an existing database.
InitStore ==
  /\ rec = NewRecorder
  /\ mu = "free"
  /\ devices = {}
  /\ dg = NewDeepgramService
  /\ conns = [k \in {} |-> NewConn(0)]
  /\ received = 0
  /\ want = <<>>
  /\ doneClosed = {}
  /\ errFull = {}
  /\ calls = [c \in Slots |-> IdleCall]
  /\ callCount = 0
  /\ conc = FALSE
  /\ long = FALSE
  /\ progress = [on |-> FALSE, tasks |-> {}]
  /\ activeThreadID = 0
  /\ threads \in StoredThreads
  /\ messages \in StoredMessages(threads)
  /\ titleTasks = {}
  /\ improveTasks = <<>>

\* The state after construction on the database an earlier run left behind:
\* one thread holding one message, no thread selected yet.
InitResume ==
  /\ rec = NewRecorder
  /\ mu = "free"
  /\ devices = {}
  /\ dg = NewDeepgramService
  /\ conns = [k \in {} |-> NewConn(0)]
  /\ received = 0
  /\ want = <<>>
  /\ doneClosed = {}
  /\ errFull = {}
  /\ calls = [c \in Slots |-> IdleCall]
  /\ callCount = 0
  /\ conc = FALSE
  /\ long = FALSE
  /\ progress = [on |-> FALSE, tasks |-> {}]
  /\ activeThreadID = 0
  /\ threads = <<NewThread("Untitled Chat", 0)>>
  /\ messages = <<NewMessage(1, <<"hello">>)>>
  /\ titleTasks = {}
  /\ improveTasks = <<>>

\* A new UI call takes the lowest free slot; calls overlap only when conc.
CanInvoke(c) ==
  /\ callCount < MaxCalls
  /\ Returned(calls[c])
  /\ \A k \in Slots : k < c => ~Returned(calls[k])
  /\ conc \/ \A k \in Slots : Returned(calls[k])

\* App.StartRecording: OnResult, StartStream, the chunk callback and
\* Recorder.StartRecording; when the recorder fails the stream just opened is
\* ended again, up to the blocking receive in EndStream.
StartRecording(c) ==
  /\ CanInvoke(c)
  /\ callCount' = callCount + 1
  /\ \E dialOk, devOk, sendOk \in BOOLEAN :
       LET id == callCount + 1
           s == StartStream([dg EXCEPT !.onResult = TRUE, !.results = <<>>],
                            id, dialOk)
           cs == (id :> NewConn(id)) @@ Prune(conns, s.dg)
           r == RecStart(rec, id, devOk, id)
           call == [NewCall("Start") EXCEPT
                      !.snap = [rec |-> rec.isRecording, conn |-> dg.conn,
                                len |-> Len(dg.transcript)]]
           tried == [call EXCEPT !.wasRec = rec.isRecording, !.recErr = r.err]
           b == BeginEnd(tried, s.dg, cs, sendOk, mu)
       IN /\ dg' = s.dg
          /\ progress' = IF progress.on /\ s.err = "" /\ mu # "leaked" /\ r.err = ""
                           THEN [progress EXCEPT !.tasks = @ \cup {id}]
                           ELSE progress
          /\ errFull' = LiveErr(errFull, s.dg, conns)
          /\ doneClosed' = LiveDone(doneClosed, s.dg, calls)
          /\ IF s.err # ""
               THEN /\ calls' = [calls EXCEPT ![c] = Finish(call, <<"error">>, mu)]
                    /\ UNCHANGED <<conns, want, rec, devices>>
               ELSE /\ want' = <<>>
                    /\ IF mu = "leaked"
                         THEN /\ calls' = [calls EXCEPT ![c] = [call EXCEPT !.pc = "hung"]]
                              /\ conns' = cs
                              /\ UNCHANGED <<rec, devices>>
                         ELSE /\ rec' = r.rec
                              /\ IF r.err = ""
                                   THEN /\ devices' = devices \cup {id}
                                        /\ conns' = cs
                                        /\ calls' = [calls EXCEPT ![c] =
                                                       Finish(tried, <<"started">>, mu)]
                                   ELSE /\ devices' = devices
                                        /\ conns' = b.conns
                                        /\ calls' = [calls EXCEPT ![c] = b.call]
  /\ UNCHANGED <<received, mu, conc, long, storeVars>>

\* App.StopRecording up to the blocking receive in EndStream.
StopRecording(c) ==
  /\ CanInvoke(c)
  /\ callCount' = callCount + 1
  /\ IF mu = "leaked"
       THEN /\ calls' = [calls EXCEPT ![c] = [NewCall("Stop") EXCEPT !.pc = "hung"]]
            /\ UNCHANGED <<rec, mu, devices, conns>>
       ELSE \E stopOk, sendOk \in BOOLEAN :
              LET r == RecStop(rec, stopOk)
                  call == [NewCall("Stop") EXCEPT
                             !.wasRec = rec.isRecording, !.recErr = r.err,
                             !.audio = r.audio,
                             !.dur = IF rec.isRecording
                                       THEN callCount + 1 - rec.recordingStart
                                       ELSE 0]
              IN /\ rec' = r.rec
                 /\ mu' = r.mu
                 /\ devices' = IF r.rec.device = 0 THEN devices \ {rec.device}
                               ELSE devices
                 /\ IF r.err # ""
                      THEN /\ calls' = [calls EXCEPT ![c] = Finish(call, <<"error">>, r.mu)]
                           /\ conns' = conns
                      ELSE LET b == BeginEnd([call EXCEPT !.emitted = <<"stopped">>],
                                             dg, conns, sendOk, r.mu)
                           IN /\ calls' = [calls EXCEPT ![c] = b.call]
                              /\ conns' = b.conns
  /\ UNCHANGED <<progress, received, want, dg, doneClosed, errFull, conc, long, storeVars>>

\* App.CancelRecording up to the blocking receive in EndStream.
CancelRecording(c) ==
  /\ CanInvoke(c)
  /\ callCount' = callCount + 1
  /\ IF mu = "leaked"
       THEN /\ calls' = [calls EXCEPT ![c] = [NewCall("Cancel") EXCEPT !.pc = "hung"]]
            /\ UNCHANGED <<rec, devices, conns>>
       ELSE \E stopOk, sendOk \in BOOLEAN :
              LET r == RecCancel(rec, stopOk)
                  call == [NewCall("Cancel") EXCEPT
                             !.wasRec = rec.isRecording, !.recErr = r.err]
                  b == BeginEnd(call, dg, conns, sendOk, mu)
              IN /\ rec' = r.rec
                 /\ devices' = IF r.rec.device = 0 THEN devices \ {rec.device}
                               ELSE devices
                 /\ calls' = [calls EXCEPT ![c] = b.call]
                 /\ conns' = b.conns
  /\ UNCHANGED <<progress, received, want, mu, dg, doneClosed, errFull, conc, long, storeVars>>

\* DeepgramService.EndStream from <-s.done on, and the handler's reaction.
EndStreamReturn(c) ==
  /\ calls[c].pc = "end_wait"
  /\ calls[c].wd \in doneClosed
  /\ IF dg.conn = 0
       THEN /\ calls' = [calls EXCEPT ![c].pc = "panic"]
            /\ UNCHANGED <<dg, errFull, conns>>
       ELSE LET f == EndStreamFinish(dg, errFull)
                call == [calls[c] EXCEPT
                           !.ended = IF f.err THEN "err" ELSE "ok",
                           !.expect = want]
            IN /\ dg' = f.dg
               /\ errFull' = f.full
               /\ conns' = Prune([conns EXCEPT ![dg.conn].open = FALSE], f.dg)
               /\ calls' = [calls EXCEPT ![c] = After(call, f.text, f.err, mu)]
  /\ doneClosed' = LiveDone(doneClosed, dg, calls')
  /\ UNCHANGED <<progress, received, want, recorderVars, callCount, conc, long, storeVars>>

\* App.persistTranscription with createThreadAsync, and the rest of
\* StopRecording; fault: the store operation that fails, if any.
PersistTranscription(c) ==
  /\ calls[c].pc = "persist"
  /\ \E fault \in DbFaults :
       LET call == calls[c]
           isNew == activeThreadID = 0
           threadOk == fault # "thread"
                         /\ (isNew \/ ThreadVisible(threads, activeThreadID))
           ths == IF isNew /\ threadOk
                    THEN Append(threads, NewThread("Untitled Chat", Now))
                    ELSE threads
           tid == IF isNew THEN Len(threads) + 1 ELSE activeThreadID
           msgOk == threadOk /\ fault # "message"
       IN /\ activeThreadID' = IF threadOk THEN tid ELSE activeThreadID
          /\ titleTasks' = IF isNew /\ threadOk THEN titleTasks \cup {tid}
                           ELSE titleTasks
          /\ messages' = IF msgOk THEN Append(messages, NewMessage(tid, call.text))
                         ELSE messages
          /\ threads' = IF msgOk /\ ~isNew /\ fault # "touch"
                          THEN TouchUpdatedAt(ths, tid, Now)
                          ELSE ths
          /\ calls' = [calls EXCEPT ![c] =
                         IF msgOk
                           THEN Finish([call EXCEPT !.newMsg = Len(messages) + 1,
                                                    !.isNew = isNew,
                                                    !.thread = tid,
                                                    !.touchErr = ~isNew /\ fault = "touch"],
                                       <<"completed">>, mu)
                           ELSE Finish([call EXCEPT !.persErr = TRUE],
                                       <<"error">>, mu)]
  /\ UNCHANGED <<progress, recorderVars, streamVars, callCount, conc, long, improveTasks>>

\* App.SelectThread.
SelectThread(c) ==
  /\ CanInvoke(c)
  /\ callCount' = callCount + 1
  /\ \E id \in 0..(Len(threads) + 1) : activeThreadID' = id
  /\ calls' = [calls EXCEPT ![c] = [NewCall("Select") EXCEPT !.pc = "done"]]
  /\ UNCHANGED <<progress, recorderVars, streamVars, conc, long, threads, messages,
                 titleTasks, improveTasks>>

\* A bug variant of TitleGenerated: an empty output is stored as the title.
TitleGeneratedAcceptsEmpty(ts, t, out, dbOk, now) ==
  IF out = "fail"
    THEN [ts EXCEPT ![t].titleAns = "unusable"]
    ELSE IF dbOk /\ ThreadVisible(ts, t)
      THEN [ts EXCEPT ![t].name = IF out = "title" THEN "Title" ELSE "",
                      ![t].updatedAt = now,
                      ![t].titleAns = IF out = "title" THEN "title" ELSE "unusable",
                      ![t].titleEvent = TRUE]
      ELSE [ts EXCEPT ![t].titleAns = IF out = "title" THEN "title" ELSE "unusable",
                      ![t].titleErr = TRUE]

\* generateTitleAsync from the return of Prompt on; out: the completion
\* backend's answer, dbOk: Lookup and Persist succeed.
TitleGenerated(ts, t, out, dbOk, now) ==
  IF out # "title"
    THEN [ts EXCEPT ![t].titleAns = "unusable"]
    ELSE IF dbOk /\ ThreadVisible(ts, t)
      THEN [ts EXCEPT ![t].name = "Title", ![t].updatedAt = now,
                      ![t].titleAns = "title", ![t].titleEvent = TRUE]
      ELSE [ts EXCEPT ![t].titleAns = "title", ![t].titleErr = TRUE]

\* App.generateTitleAsync; out: the completion backend's answer.
GenerateTitle(t) ==
  /\ t \in titleTasks
  /\ titleTasks' = titleTasks \ {t}
  /\ \E out \in {"fail", "empty", "title"}, dbOk \in BOOLEAN :
       threads' = TitleGenerated(threads, t, out, dbOk, Now)
  /\ UNCHANGED <<progress, recorderVars, streamVars, calls, callCount, conc, long,
                 activeThreadID, messages, improveTasks>>

\* A bug variant of StoreCall: ImproveMessageText waits for its completion
\* call instead of starting a goroutine, so it has not returned while the
\* backend has not answered.
StoreCallWaits(op, arg, failed) ==
  [NewCall(op) EXCEPT !.pc = IF op = "Improve" /\ ~failed THEN "run" ELSE "done",
                      !.arg = arg,
                      !.res = IF failed THEN "err" ELSE "ok"]

\* A bound store method: it runs to its return in one step.
StoreCall(op, arg, failed) ==
  [NewCall(op) EXCEPT !.pc = "done", !.arg = arg,
                      !.res = IF failed THEN "err" ELSE "ok"]

RemoveAt(q, i) == SubSeq(q, 1, i - 1) \o SubSeq(q, i + 1, Len(q))

\* App.ImproveMessageText up to its return: Lookup, the check of Text, and the
\* start of the goroutine that holds the Message just read.
ImproveMessageText(c) ==
  /\ CanInvoke(c)
  /\ callCount' = callCount + 1
  /\ \E id \in 0..(Len(messages) + 1), readOk \in BOOLEAN :
       LET l == MessageLookup(messages, id, readOk)
       IN /\ calls' = [calls EXCEPT ![c] = StoreCall("Improve", id, l.err)]
          /\ improveTasks' = IF ~l.err /\ l.msg.text = <<>>
                                THEN Append(improveTasks,
                                            [msg |-> l.msg, call |-> callCount + 1])
                                ELSE improveTasks
  /\ UNCHANGED <<progress, recorderVars, streamVars, conc, long, activeThreadID, threads,
                 messages, titleTasks>>

\* The goroutine of ImproveMessageText from the return of Prompt on: the
\* completion backend's answer (out), the fallback to OriginalText, Persist of
\* the Message it holds, and message:text-improved when Persist succeeded.
ImproveOutcome(ms, msg, out, readOk, writeOk) ==
  IF out = "fail" THEN [ms |-> ms, ans |-> "fail", event |-> FALSE]
  ELSE LET improved == IF out = "empty" THEN msg.originalText ELSE <<"Improved">>
           p == MessagePersist(ms, [msg EXCEPT !.text = improved], readOk, writeOk)
       IN [ms |-> p.ms, ans |-> "ok", event |-> ~p.err]

\* The goroutine of ImproveMessageText.  The call that started it, while it
\* is still the latest in its slot, logs the backend's answer (ans) and
\* whether message:text-improved was emitted for its message id (event).
ImproveTask(i) ==
  /\ i \in 1..Len(improveTasks)
  /\ improveTasks' = RemoveAt(improveTasks, i)
  /\ \E out \in {"fail", "empty", "text"}, readOk, writeOk \in BOOLEAN :
       LET o == ImproveOutcome(messages, improveTasks[i].msg, out, readOk, writeOk)
       IN /\ messages' = o.ms
          /\ calls' = [c \in Slots |->
                         IF calls[c].id = improveTasks[i].call
                           THEN [calls[c] EXCEPT !.ans = o.ans, !.event = o.event]
                           ELSE calls[c]]
  /\ UNCHANGED <<progress, recorderVars, streamVars, callCount, conc, long,
                 activeThreadID, threads, titleTasks>>

\* App.DeleteMessage (MessageService.Delete).
DeleteMessage(c) ==
  /\ CanInvoke(c)
  /\ callCount' = callCount + 1
  /\ \E id \in 0..(Len(messages) + 1), readOk, writeOk \in BOOLEAN :
       LET l == MessageLookup(messages, id, readOk)
           p == MessagePersist(messages, [l.msg EXCEPT !.deleted = TRUE],
                               readOk, writeOk)
       IN /\ messages' = IF l.err THEN messages ELSE p.ms
          /\ calls' = [calls EXCEPT ![c] =
                         StoreCall("DeleteMessage", id, l.err \/ p.err)]
  /\ UNCHANGED <<progress, recorderVars, streamVars, conc, long, activeThreadID, threads,
                 titleTasks, improveTasks>>

\* App.DeleteThread (ThreadService.Delete).
DeleteThread(c) ==
  /\ CanInvoke(c)
  /\ callCount' = callCount + 1
  /\ \E id \in 0..(Len(threads) + 1), dbOk \in BOOLEAN :
       LET d == ThreadDelete(threads, id, callCount + 1, dbOk)
       IN /\ threads' = d.ts
          /\ calls' = [calls EXCEPT ![c] = StoreCall("DeleteThread", id, d.err)]
  /\ UNCHANGED <<progress, recorderVars, streamVars, conc, long, activeThreadID, messages,
                 titleTasks, improveTasks>>

\* App.RenameThread.
RenameThread(c) ==
  /\ CanInvoke(c)
  /\ callCount' = callCount + 1
  /\ \E id \in 0..(Len(threads) + 1), dbOk \in BOOLEAN :
       LET l == ThreadLookup(threads, id, dbOk)
           p == ThreadPersist(threads, [l.thread EXCEPT !.name = "Renamed"],
                              callCount + 1, dbOk)
       IN /\ threads' = IF l.err THEN threads ELSE p.ts
          /\ calls' = [calls EXCEPT ![c] =
                         StoreCall("RenameThread", id, l.err \/ p.err)]
  /\ UNCHANGED <<progress, recorderVars, streamVars, conc, long, activeThreadID, messages,
                 titleTasks, improveTasks>>

\* App.SetThreadPinned (ThreadService.SetPinned).
SetThreadPinned(c) ==
  /\ CanInvoke(c)
  /\ callCount' = callCount + 1
  /\ \E id \in 0..(Len(threads) + 1), pinned, dbOk \in BOOLEAN :
       LET l == ThreadLookup(threads, id, dbOk)
           p == ThreadPersist(threads, [l.thread EXCEPT !.pinned = pinned],
                              callCount + 1, dbOk)
       IN /\ threads' = IF l.err THEN threads ELSE p.ts
          /\ calls' = [calls EXCEPT ![c] =
                         StoreCall("SetThreadPinned", id, l.err \/ p.err)]
  /\ UNCHANGED <<progress, recorderVars, streamVars, conc, long, activeThreadID, messages,
                 titleTasks, improveTasks>>

----------------------------------------------------------------------------
\* Background tasks

\* The receive loop reads one Results or UtteranceEnd frame; the backend
\* recognises speech only in audio it was sent.  Interim and empty results
\* leave the accumulator as it is.
LoopRecv(k) ==
  /\ conns[k].loop = "read"
  /\ conns[k].open
  /\ conns[k].audio
  /\ received < MaxEvents
  /\ \E e \in Events :
       /\ received' = received + (IF Accumulate(<<>>, e) = <<>> THEN 0 ELSE 1)
       /\ dg' = [dg EXCEPT !.transcript = Accumulate(@, e)]
       /\ want' = IF k = dg.conn THEN Joined(want, e) ELSE want
  /\ UNCHANGED <<progress, recorderVars, conns, doneClosed, errFull, calls, callCount,
                 conc, long, storeVars>>

\* The same step of the receive loop with its effects written down in
\* dg.results: the frame, the call of s.onResult it made, and the fragments
\* it added to the accumulator.
LoopRecvLogged(k) ==
  /\ conns[k].loop = "read"
  /\ conns[k].open
  /\ conns[k].audio
  /\ received < MaxEvents
  /\ Len(dg.results) < MaxEvents
  /\ \E e \in Events :
       LET t == Accumulate(dg.transcript, e)
           old == FragmentsOf(dg.transcript)
           new == FragmentsOf(t)
       IN /\ received' = received + (IF Accumulate(<<>>, e) = <<>> THEN 0 ELSE 1)
          /\ dg' = [dg EXCEPT
                      !.transcript = t,
                      !.results = Append(@, [frame |-> e,
                                             cb |-> ResultCallback(dg, e),
                                             added |-> SubSeq(new, Len(old) + 1,
                                                              Len(new))])]
          /\ want' = IF k = dg.conn THEN Joined(want, e) ELSE want
  /\ UNCHANGED <<progress, recorderVars, conns, doneClosed, errFull, calls, callCount,
                 conc, long, storeVars>>

\* The backend answers CloseStream with a normal closure: the loop returns
\* and the deferred close(s.done) runs.
LoopClose(k) ==
  /\ conns[k].loop = "read"
  /\ conns[k].open
  /\ conns[k].closeSent
  /\ conns' = Prune([conns EXCEPT ![k].loop = "ended"], dg)
  /\ doneClosed' = LiveDone(doneClosed \cup {conns[k].done}, dg, calls)
  /\ UNCHANGED <<progress, received, want, recorderVars, dg, errFull, calls, callCount, conc, long, storeVars>>

\* ReadMessage or Unmarshal fails: the loop sends the error on s.err, which
\* blocks while that channel's one slot is taken.
LoopError(k) ==
  /\ conns[k].loop = "read"
  /\ IF dg.err \in errFull
       THEN /\ conns' = [conns EXCEPT ![k].loop = "blocked", ![k].tgt = dg.err]
            /\ UNCHANGED <<errFull, doneClosed>>
       ELSE /\ conns' = Prune([conns EXCEPT ![k].loop = "ended"], dg)
            /\ errFull' = errFull \cup {dg.err}
            /\ doneClosed' = LiveDone(doneClosed \cup {conns[k].done}, dg, calls)
  /\ UNCHANGED <<progress, received, want, recorderVars, dg, calls, callCount, conc, long, storeVars>>

\* A blocked send on an err channel completes once the slot is free.
LoopUnblock(k) ==
  /\ conns[k].loop = "blocked"
  /\ conns[k].tgt \notin errFull
  /\ conns' = Prune([conns EXCEPT ![k].loop = "ended"], dg)
  /\ errFull' = LiveErr(errFull \cup {conns[k].tgt}, dg, conns')
  /\ doneClosed' = LiveDone(doneClosed \cup {conns[k].done}, dg, calls)
  /\ UNCHANGED <<progress, received, want, recorderVars, dg, calls, callCount, conc, long, storeVars>>

\* One tick of a progressLoop goroutine: GetStatus under r.mu; the loop
\* returns when the recorder is not recording, otherwise it emits
\* recording:progress and waits for the next tick.
ProgressTick(p) ==
  /\ p \in progress.tasks
  /\ mu = "free"
  /\ progress' = IF rec.isRecording THEN progress
                 ELSE [progress EXCEPT !.tasks = @ \ {p}]
  /\ UNCHANGED <<recorderVars, streamVars, calls, callCount, conc, long,
                 storeVars>>

\* The capture device's frame-delivery callback (onRecvFrames) appends the
\* frame under r.mu; the chunk callback registered by StartRecording forwards
\* it to the transcriber.
OnRecvFrames(d) ==
  /\ mu = "free"
  /\ \E n \in 1..(IF long THEN MaxTranscriptionBytes + 1 ELSE MaxTranscriptionBytes) :
       /\ n >= rec.audioBuffer
       /\ n <= rec.audioBuffer + 1
       /\ rec' = [rec EXCEPT !.audioBuffer = n]
  /\ conns' = SendChunk(dg, conns)
  /\ UNCHANGED <<progress, mu, devices, dg, received, want, doneClosed, errFull, calls,
                 callCount, conc, long, storeVars>>

Next ==
  \/ \E c \in Slots : StartRecording(c)
  \/ \E c \in Slots : StopRecording(c)
  \/ \E c \in Slots : CancelRecording(c)
  \/ \E c \in Slots : EndStreamReturn(c)
  \/ \E c \in Slots : PersistTranscription(c)
  \/ \E c \in Slots : SelectThread(c)
  \/ \E t \in titleTasks : GenerateTitle(t)
  \/ \E k \in DOMAIN conns : LoopRecv(k)
  \/ \E k \in DOMAIN conns : LoopClose(k)
  \/ \E k \in DOMAIN conns : LoopError(k)
  \/ \E k \in DOMAIN conns : LoopUnblock(k)
  \/ \E d \in devices : OnRecvFrames(d)

Spec == Init /\ [][Next]_vars

SpecConc == InitConc /\ [][Next]_vars

SpecLong == InitLong /\ [][Next]_vars

SpecResume == InitResume /\ [][Next]_vars

\* No UI call is in flight.
Quiet == \A k \in Slots : Returned(calls[k])

\* Only StopRecording calls are in flight.
StopsOnly == \A k \in Slots : Returned(calls[k]) \/ calls[k].op = "Stop"

\* Recording sessions with repeated stop events: the user starts and stops
\* recordings; a stop event (window button, tray menu, hotkey) may arrive
\* while earlier stop events are still being handled, a start only with no
\* call in flight.
NextStops ==
  \/ \E c \in Slots : Quiet /\ StartRecording(c)
  \/ \E c \in Slots : StopsOnly /\ StopRecording(c)
  \/ \E c \in Slots : EndStreamReturn(c)
  \/ \E c \in Slots : PersistTranscription(c)
  \/ \E t \in titleTasks : GenerateTitle(t)
  \/ \E k \in DOMAIN conns : LoopRecv(k)
  \/ \E k \in DOMAIN conns : LoopClose(k)
  \/ \E k \in DOMAIN conns : LoopError(k)
  \/ \E k \in DOMAIN conns : LoopUnblock(k)
  \/ \E d \in devices : OnRecvFrames(d)

SpecStops == InitConc /\ [][NextStops]_vars

\* Recording sessions together with the thread operations of the sidebar, on
\* the database an earlier run left behind.
NextThreads ==
  \/ \E c \in Slots : StartRecording(c)
  \/ \E c \in Slots : StopRecording(c)
  \/ \E c \in Slots : EndStreamReturn(c)
  \/ \E c \in Slots : PersistTranscription(c)
  \/ \E c \in Slots : SelectThread(c)
  \/ \E c \in Slots : RenameThread(c)
  \/ \E c \in Slots : SetThreadPinned(c)
  \/ \E c \in Slots : DeleteThread(c)
  \/ \E t \in titleTasks : GenerateTitle(t)
  \/ \E k \in DOMAIN conns : LoopRecv(k)
  \/ \E k \in DOMAIN conns : LoopClose(k)
  \/ \E d \in devices : OnRecvFrames(d)

SpecThreads == InitResume /\ [][NextThreads]_vars

\* Recording sessions together with the message operations of the chat view,
\* on the database an earlier run left behind.
\* The call budget leaves room for the stop of a recording started now.
RoomToStop == callCount + 1 < MaxCalls

NextMessages ==
  \/ \E c \in Slots : RoomToStop /\ StartRecording(c)
  \/ \E c \in Slots : StopRecording(c)
  \/ \E c \in Slots : EndStreamReturn(c)
  \/ \E c \in Slots : PersistTranscription(c)
  \/ \E c \in Slots : ImproveMessageText(c)
  \/ \E i \in 1..Len(improveTasks) : ImproveTask(i)
  \/ \E c \in Slots : DeleteMessage(c)
  \/ \E t \in titleTasks : GenerateTitle(t)
  \/ \E k \in DOMAIN conns : LoopRecv(k)
  \/ \E k \in DOMAIN conns : LoopClose(k)
  \/ \E d \in devices : OnRecvFrames(d)

SpecMessages == InitResume /\ [][NextMessages]_vars

\* The bound store methods and the improvement goroutines, on an existing
\* database.
NextStore ==
  \/ \E c \in Slots : ImproveMessageText(c)
  \/ \E i \in 1..Len(improveTasks) : ImproveTask(i)
  \/ \E c \in Slots : DeleteMessage(c)
  \/ \E c \in Slots : DeleteThread(c)
  \/ \E c \in Slots : RenameThread(c)
  \/ \E c \in Slots : SetThreadPinned(c)

SpecStore == InitStore /\ [][NextStore]_vars

----------------------------------------------------------------------------
\* Properties

Emitted(k, e) == \E i \in 1..Len(k.emitted) : k.emitted[i] = e

IsPrefix(a, b) == Len(a) <= Len(b) /\ SubSeq(b, 1, Len(a)) = a

\* The step in which slot c takes a new call of handler op.
Invokes(c, op) ==
  /\ Returned(calls[c])
  /\ calls'[c].op = op
  /\ calls'[c].id = callCount + 1

\* C1 (as stated): every StopRecording call that ends a recording session and
\* returns has produced exactly one of a persisted Message and the
\* empty-result notification.
C1_ExactlyOne ==
  \A c \in Slots :
    LET k == calls[c]
    IN (k.op = "Stop" /\ k.wasRec /\ k.pc = "done")
         => ((k.newMsg # 0) # Emitted(k, "empty"))

\* C1 (amended): a StopRecording call never produces both a persisted Message
\* and the empty-result notification; when it returns, it has produced exactly
\* one of them if and only if neither Recorder.StopRecording nor
\* persistTranscription failed, and otherwise it has produced neither and has
\* emitted the error notification.
C1_ExactlyOneUnlessFailed ==
  \A c \in Slots :
    LET k == calls[c]
        msg == k.newMsg # 0
                 /\ k.newMsg \in 1..Len(messages)
                 /\ messages[k.newMsg].originalText = k.text
        empty == Emitted(k, "empty")
        failed == k.recErr # "" \/ k.persErr
    IN k.op = "Stop"
         => /\ ~(msg /\ empty)
            /\ k.newMsg # 0 => msg
            /\ k.pc = "done" =>
                 /\ (msg # empty) <=> ~failed
                 /\ failed => (~msg /\ ~empty /\ Emitted(k, "error"))

\* C1 witness: a StopRecording call of a recording session has returned after
\* persisting its Message.
C1_Witness ==
  \E c \in Slots :
    /\ calls[c].op = "Stop" /\ calls[c].pc = "done" /\ calls[c].wasRec
    /\ calls[c].newMsg # 0
    /\ ~Emitted(calls[c], "empty")

\* C2: no step of a CancelRecording call changes the threads, the messages,
\* the active-thread pointer or the set of title-generation tasks, and a
\* CancelRecording call never enters persistTranscription.
C2_CancelPersistsNothing ==
  [][\A c \in Slots :
       (calls'[c].op = "Cancel" /\ calls'[c] # calls[c])
         => /\ UNCHANGED <<threads, messages, titleTasks, activeThreadID,
                          improveTasks>>
            /\ calls'[c].pc # "persist"
            /\ calls'[c].newMsg = 0]_vars

\* C2 witness: a CancelRecording call on a recording session has returned
\* after EndStream handed it a non-empty transcript.
C2_Witness ==
  \E c \in Slots :
    /\ calls[c].op = "Cancel" /\ calls[c].pc = "done" /\ calls[c].wasRec
    /\ calls[c].ended = "ok"
    /\ calls[c].text # <<>>
    /\ messages = <<>>

\* C3 (as stated): at most one streaming connection is open, at most one
\* receive loop is running and at most one capture device is open.
C3_OneSessionLive ==
  /\ Cardinality({k \in DOMAIN conns : conns[k].open}) <= 1
  /\ Cardinality({k \in DOMAIN conns : conns[k].loop # "ended"}) <= 1
  /\ Cardinality(devices) <= 1

\* C4 (as stated): whenever a handler is blocked in EndStream on a done
\* channel that is not yet closed, the receive loop that closes that channel
\* is still running and not blocked, so that EndStream will return.
C4_EndStreamSignalled ==
  \A c \in Slots :
    (calls[c].pc = "end_wait" /\ calls[c].wd \notin doneClosed)
      => \E k \in DOMAIN conns :
           conns[k].done = calls[c].wd /\ conns[k].loop = "read"

\* C5 (as stated): the transcript EndStream returns to StopRecording is the
\* non-empty final fragments received on the connection, in order, joined by
\* single spaces, with "\n" at each utterance boundary.
C5_TranscriptIsJoinedFinals ==
  \A c \in Slots :
    (calls[c].op = "Stop" /\ calls[c].ended = "ok")
      => calls[c].text = calls[c].expect

\* C6 (as stated): while a session records on the connection its own
\* StartRecording opened, the accumulator holds only fragments received on
\* that connection: nothing accumulated in an earlier session is left in it.
C6_NoEarlierSessionText ==
  (rec.isRecording /\ rec.device = dg.conn)
    => FragmentsOf(dg.transcript) = FragmentsOf(want)

\* C7: a Recorder.StartRecording that finds a capture active fails with
\* "already recording" and leaves recordingStart, audioBuffer, the device
\* handle, isRecording and the set of open devices unchanged.
C7_StartTwiceNoEffect ==
  [][\A c \in Slots :
       (Invokes(c, "Start") /\ rec.isRecording)
         => /\ (dg'.conn = calls'[c].id /\ mu = "free")
                 => calls'[c].recErr = "already recording"
            /\ ~Emitted(calls'[c], "started")
            /\ UNCHANGED <<rec, mu, devices>>]_vars

\* C7 witness: StartRecording has failed with "already recording" on a
\* capture that holds buffered audio.
C7_Witness ==
  \E c \in Slots :
    /\ calls[c].op = "Start" /\ calls[c].recErr = "already recording"
    /\ rec.isRecording /\ rec.audioBuffer > 0 /\ rec.device # 0
    /\ rec.recordingStart < calls[c].id

\* C8 (as stated): an App.StartRecording issued while recording leaves the
\* session's connection open and current, and the accumulator no shorter than
\* it found it.
C8_StartWhileRecordingFailsClosed ==
  \A c \in Slots :
    LET k == calls[c]
    IN (k.op = "Start" /\ k.pc = "done" /\ k.snap.rec /\ k.snap.conn # 0)
         => /\ dg.conn = k.snap.conn
            /\ k.snap.conn \in DOMAIN conns
            /\ conns[k.snap.conn].open
            /\ k.snap.len <= Len(dg.transcript)

\* C9: a StopRecording issued while the recorder is not recording changes
\* neither recorder, streaming session, accumulator, active-thread pointer
\* nor store, and reports the "not recording" error.
C9_StopWhenIdleNoChange ==
  [][\A c \in Slots :
       (Invokes(c, "Stop") /\ ~rec.isRecording)
         => /\ UNCHANGED <<recorderVars, streamVars, storeVars>>
            /\ mu = "free" =>
                 /\ calls'[c].recErr = "not recording"
                 /\ calls'[c].emitted = <<"error">>
                 /\ calls'[c].pc = "done"]_vars

\* C9 witness: a StopRecording issued while not recording has returned with
\* the "not recording" error.
C9_Witness ==
  \E c \in Slots :
    /\ calls[c].op = "Stop" /\ calls[c].pc = "done" /\ ~calls[c].wasRec
    /\ calls[c].recErr = "not recording"
    /\ ~rec.isRecording

\* C10 (as stated): a CancelRecording issued while not recording fails with
\* an error and emits no notification.
C10_CancelWhenIdleFailsSilently ==
  \A c \in Slots :
    (calls[c].op = "Cancel" /\ calls[c].pc = "done" /\ ~calls[c].wasRec)
      => (calls[c].recErr # "" /\ calls[c].emitted = <<>>)

\* C10 (amended): a CancelRecording issued while the recorder is not
\* recording and no stream is open changes neither recorder, streaming
\* session nor store; the recorder reports no error, and the call emits
\* exactly one notification, recording:stopped.
C10_CancelWhenIdleOnlyEmitsStopped ==
  [][\A c \in Slots :
       (Invokes(c, "Cancel") /\ ~rec.isRecording /\ dg.conn = 0
          /\ mu = "free")
         => /\ UNCHANGED <<recorderVars, streamVars, storeVars>>
            /\ calls'[c].recErr = ""
            /\ calls'[c].ended = "err"
            /\ calls'[c].emitted = <<"stopped">>
            /\ calls'[c].pc = "done"]_vars

\* C10 witness: a CancelRecording issued while idle has returned after
\* emitting recording:stopped.
C10_Witness ==
  \E c \in Slots :
    /\ calls[c].op = "Cancel" /\ calls[c].pc = "done" /\ ~calls[c].wasRec
    /\ calls[c].ended = "err"
    /\ calls[c].emitted = <<"stopped">>
    /\ ~rec.isRecording /\ dg.conn = 0

\* C11 (as stated): a StopRecording issued on a recording with an empty audio
\* buffer reports "no audio recorded", creates no Thread and no Message, and
\* leaves the recorder idle.
C11_ZeroAudioStopIdle ==
  [][\A c \in Slots :
       (Invokes(c, "Stop") /\ rec.isRecording /\ rec.audioBuffer = 0
          /\ mu = "free")
         => /\ calls'[c].recErr = "no audio recorded"
            /\ UNCHANGED storeVars
            /\ ~rec'.isRecording /\ rec'.device = 0]_vars

\* C11 (amended): such a StopRecording emits exactly the error notification,
\* never reaches EndStream or persistTranscription, and changes neither store
\* nor streaming session; when the capture device stops, the error is
\* "no audio recorded", the recorder is idle and the call returns; when the
\* device fails to stop, the error is the device's, and the recorder stays
\* recording with its mutex held.
C11_ZeroAudioStopRejected ==
  [][\A c \in Slots :
       (Invokes(c, "Stop") /\ rec.isRecording /\ rec.audioBuffer = 0
          /\ mu = "free")
         => /\ calls'[c].emitted = <<"error">>
            /\ UNCHANGED <<storeVars, streamVars>>
            /\ \/ /\ calls'[c].recErr = "no audio recorded"
                  /\ calls'[c].pc = "done"
                  /\ mu' = "free"
                  /\ ~rec'.isRecording /\ rec'.device = 0
                  /\ rec.device \notin devices'
               \/ /\ calls'[c].recErr = "failed to stop capture device on stop"
                  /\ calls'[c].pc = "hung"
                  /\ mu' = "leaked"
                  /\ UNCHANGED <<rec, devices>>]_vars

\* C11 witness: a StopRecording on a recording without audio has returned
\* "no audio recorded" with nothing persisted.
C11_Witness ==
  \E c \in Slots :
    /\ calls[c].op = "Stop" /\ calls[c].pc = "done" /\ calls[c].wasRec
    /\ calls[c].recErr = "no audio recorded"
    /\ ~rec.isRecording
    /\ threads = <<>> /\ messages = <<>>

\* C12 (as stated): a StopRecording whose session received no non-empty final
\* fragment (the transcript EndStream returns holds no fragment, with or
\* without utterance boundaries) announces the empty result and neither enters
\* persistTranscription nor creates a Message.
C12_NothingRecognizedIsEmpty ==
  \A c \in Slots :
    LET k == calls[c]
    IN (k.op = "Stop" /\ k.ended = "ok"
          /\ FragmentsOf(k.expect) = <<>> /\ FragmentsOf(k.text) = <<>>)
         => /\ k.pc # "persist"
            /\ k.newMsg = 0
            /\ k.pc = "done" => Emitted(k, "empty")

\* C13 (as stated): whatever the configured minimum recording duration, a
\* StopRecording on a recording shorter than it persists nothing: it neither
\* enters persistTranscription nor creates a Message.
C13_TooShortRejected ==
  \A c \in Slots : \A min \in 1..MaxCalls :
    LET k == calls[c]
    IN (k.op = "Stop" /\ k.wasRec /\ k.dur < min)
         => (k.pc # "persist" /\ k.newMsg = 0)

\* C14 (as stated): a StopRecording on a recording whose buffer exceeds
\* MaxTranscriptionBytes persists nothing: it neither enters
\* persistTranscription nor creates a Message, and it has emitted the error
\* notification when it returns.
C14_TooLongRejected ==
  \A c \in Slots :
    LET k == calls[c]
    IN (k.op = "Stop" /\ k.audio > MaxTranscriptionBytes)
         => /\ k.pc # "persist"
            /\ k.newMsg = 0
            /\ k.pc = "done" => Emitted(k, "error")

\* C15 (as stated): an ImproveMessageText on a visible message whose text is
\* non-empty returns success, starts no improvement goroutine (the only
\* caller of the completion backend) and changes no message.
C15_ImproveNonEmptyIsNoOp ==
  [][\A c \in Slots :
       LET id == calls'[c].arg
       IN (Invokes(c, "Improve") /\ id \in 1..Len(messages)
             /\ ~messages[id].deleted /\ messages[id].text # <<>>)
            => /\ calls'[c].res = "ok"
               /\ UNCHANGED <<messages, improveTasks>>]_vars

C18_NotificationsOrdered ==
  \A c \in Slots :
    calls[c].op = "Stop" =>
      LET e == calls[c].emitted
          Done == {"completed", "empty"}
      IN \A i \in 1..Len(e) :
           /\ e[i] \in Done \cup {"processing"}
                => \E j \in 1..(i - 1) : e[j] = "stopped"
           /\ e[i] = "completed"
                => \E j \in 1..(i - 1) : e[j] = "processing"
           /\ e[i] \in Done
                => \A j \in (i + 1)..Len(e) : e[j] \notin {"stopped", "processing"}
           /\ e[i] = "processing"
                => \A j \in (i + 1)..Len(e) : e[j] # "stopped"

\* C18 witness: a StopRecording has emitted all three notifications.
C18_Witness ==
  \E c \in Slots :
    /\ calls[c].op = "Stop" /\ calls[c].pc = "done"
    /\ calls[c].emitted = <<"stopped", "processing", "completed">>

\* C19: no StopRecording emits both an `error` notification and the empty
\* transcription:completed notification.
C19_EmptyNeverWithError ==
  \A c \in Slots :
    calls[c].op = "Stop"
      => ~(Emitted(calls[c], "error") /\ Emitted(calls[c], "empty"))

\* C20: once DeleteThread(id) has returned success, ThreadService.Lookup(id)
\* fails, GetThreads does not list the thread and GetMessages(id) fails; and
\* Lookup of an id that was never created fails.
C20_DeletedThreadInvisible ==
  [][\A c \in Slots :
       (Invokes(c, "DeleteThread") /\ calls'[c].res = "ok")
         => LET id == calls'[c].arg
            IN /\ ThreadLookup(threads', id, TRUE).err
               /\ id \notin LookupAll(threads')
               /\ GetMessages(threads', messages', id).err
               /\ ThreadLookup(threads', Len(threads') + 1, TRUE).err]_vars

\* The recording session a StopRecording call found: its recordingStart.
SessionOf(call) == call.id - call.dur

\* C21: with overlapping calls, a StopRecording gets past
\* Recorder.StopRecording only by ending a recording that no other
\* StopRecording got past, and it leaves the recorder idle; only a call that
\* got past it persists, and it adds at most one Thread and one Message.
C21_OneStopPerSession ==
  [][/\ \A c \in Slots :
          (Invokes(c, "Stop") /\ Emitted(calls'[c], "stopped"))
            => /\ rec.isRecording /\ ~rec'.isRecording
               /\ \A k \in Slots \ {c} :
                    (calls[k].op = "Stop" /\ Emitted(calls[k], "stopped"))
                      => SessionOf(calls[k]) # rec.recordingStart
     /\ (Len(threads') # Len(threads) \/ Len(messages') # Len(messages))
          => \E c \in Slots :
               /\ calls[c].op = "Stop" /\ calls[c].pc = "persist"
               /\ Emitted(calls[c], "stopped") /\ calls'[c].pc # "persist"
               /\ Len(messages') <= Len(messages) + 1
               /\ Len(threads') <= Len(threads) + 1
               /\ \A k \in Slots \ {c} : calls'[k] = calls[k]]_vars

\* C21 witness: two StopRecording calls overlap on one session; the first
\* waits in EndStream, the second was turned away by the recorder.
C21_Witness ==
  \E c, k \in Slots :
    /\ calls[c].op = "Stop" /\ Emitted(calls[c], "stopped")
    /\ calls[c].pc = "end_wait"
    /\ calls[k].op = "Stop" /\ calls[k].recErr = "not recording"
    /\ calls[k].id = calls[c].id + 1

\* C22: SendChunk and EndStream on a service without a connection fail with
\* "connection not started" and leave the connection handle, the done and err
\* channels, the accumulator and every connection as they were.
C22_DisconnectedCallsFail ==
  [][/\ \A c \in Slots :
          ((Invokes(c, "Stop") \/ Invokes(c, "Cancel"))
             /\ calls'[c].pc \notin {"hung"} /\ dg.conn = 0
             /\ (calls'[c].ended # "none" \/ calls'[c].pc = "end_wait"))
            => /\ \A sendOk \in BOOLEAN :
                    EndStreamBegin(dg, sendOk) = "connection not started"
               /\ calls'[c].ended = "err"
               /\ calls'[c].text = <<>>
               /\ UNCHANGED streamVars
     /\ (dg.conn = 0 /\ \E d \in devices : OnRecvFrames(d))
          => /\ SendChunkErr(dg) = "connection not started"
             /\ UNCHANGED streamVars]_vars

\* C22 witness: a capture device outlived its stream (the service has no
\* connection left, the recorder still held audio), and the next StopRecording
\* called EndStream on the ended session.
C22_Witness ==
  /\ dg.conn = 0 /\ dg.done # 0
  /\ \E c \in Slots :
       /\ calls[c].op = "Stop" /\ calls[c].wasRec /\ calls[c].audio > 0
       /\ calls[c].ended = "err" /\ calls[c].wd = 0 /\ calls[c].pc = "done"

\* C23: whenever the controller is idle (no call in flight, the recorder not
\* recording), the notifications emitted so far have left the UI recording
\* state (useRecording) at `idle`.
C23_UiBackToIdle ==
  (Quiet /\ ~rec.isRecording /\ mu = "free") => UiState = "idle"

\* A Message value with the given id, as a caller holds it.
HeldMessage(id) == [ZeroMessage EXCEPT !.id = id, !.threadId = 1,
                                       !.originalText = <<"hello">>,
                                       !.text = <<"Improved">>]

\* C24: on every store, Persist of a Thread or Message whose id is assigned
\* but whose row is absent or soft-deleted fails and modifies no row, whatever
\* the database does; Persist of an entity without id, when the INSERT
\* succeeds, adds exactly one row under an id no row had and changes no other.
C24_PersistRevalidates ==
  /\ \A id \in 1..(Len(messages) + 1), readOk, writeOk \in BOOLEAN :
       (id > Len(messages) \/ messages[id].deleted)
         => LET p == MessagePersist(messages, HeldMessage(id), readOk, writeOk)
            IN p.err /\ p.ms = messages
  /\ \A id \in 1..(Len(threads) + 1), dbOk \in BOOLEAN :
       (id > Len(threads) \/ threads[id].deleted)
         => LET p == ThreadPersist(threads,
                                   [id |-> id, name |-> "Renamed",
                                    pinned |-> TRUE, deleted |-> FALSE],
                                   Now, dbOk)
            IN p.err /\ p.ts = threads
  /\ \A readOk \in BOOLEAN :
       LET p == MessagePersist(messages, HeldMessage(0), readOk, TRUE)
       IN /\ ~p.err
          /\ Len(p.ms) = Len(messages) + 1
          /\ SubSeq(p.ms, 1, Len(messages)) = messages

\* C25 as stated: no step lowers a visible thread's updatedAt or changes its
\* createdAt or removes its row; a successful RenameThread or SetThreadPinned
\* sets the thread's updatedAt to the time of the call, and a StopRecording
\* that appends a Message to an existing thread sets that thread's updatedAt
\* to the time of the hand-off.
C25_UpdatedAtAdvances ==
  [][/\ Len(threads') >= Len(threads)
     /\ \A t \in 1..Len(threads) :
          /\ threads'[t].createdAt = threads[t].createdAt
          /\ threads'[t].updatedAt >= threads[t].updatedAt
     /\ \A c \in Slots :
          ((Invokes(c, "RenameThread") \/ Invokes(c, "SetThreadPinned"))
             /\ calls'[c].res = "ok")
            => threads'[calls'[c].arg].updatedAt = calls'[c].id
     /\ \A c \in Slots :
          (calls[c].op = "Stop" /\ calls[c].pc = "persist"
             /\ Len(messages') = Len(messages) + 1 /\ activeThreadID # 0)
            => threads'[activeThreadID].updatedAt = Now]_vars

\* C25 amended: as above, except that a StopRecording that appends a Message
\* to an existing thread sets that thread's updatedAt to the time of the
\* hand-off only when TouchUpdatedAt succeeds; when it fails, updatedAt stays
\* as it was.
C25_UpdatedAtAdvancesUnlessTouchFails ==
  [][/\ Len(threads') >= Len(threads)
     /\ \A t \in 1..Len(threads) :
          /\ threads'[t].createdAt = threads[t].createdAt
          /\ threads'[t].updatedAt >= threads[t].updatedAt
     /\ \A c \in Slots :
          ((Invokes(c, "RenameThread") \/ Invokes(c, "SetThreadPinned"))
             /\ calls'[c].res = "ok")
            => /\ threads'[calls'[c].arg].updatedAt = calls'[c].id
               /\ threads'[calls'[c].arg].updatedAt > threads[calls'[c].arg].updatedAt
     /\ \A c \in Slots :
          (calls[c].op = "Stop" /\ calls[c].pc = "persist"
             /\ Len(messages') = Len(messages) + 1 /\ activeThreadID # 0)
            => threads'[activeThreadID].updatedAt
                 = IF calls'[c].touchErr THEN threads[activeThreadID].updatedAt
                   ELSE Now]_vars

\* C25 witness: thread 1, created by an earlier run, has been renamed by the
\* latest call and carries that call's time as updatedAt.
C25_Witness ==
  \E c \in Slots :
    /\ calls[c].op = "RenameThread" /\ calls[c].res = "ok" /\ calls[c].arg = 1
    /\ calls[c].id = callCount
    /\ threads[1].name = "Renamed"
    /\ threads[1].createdAt = 0
    /\ threads[1].updatedAt = calls[c].id

\* C26: no operation removes a Message row or changes the originalText or
\* the threadId of an existing one.
C26_OriginalTextImmutable ==
  [][/\ Len(messages') >= Len(messages)
     /\ \A m \in 1..Len(messages) :
          /\ messages'[m].originalText = messages[m].originalText
          /\ messages'[m].threadId = messages[m].threadId]_vars

\* C26 witness: an improvement goroutine has written message 1 back with the
\* fallback text and DeleteMessage has then soft-deleted it; the row kept its
\* originalText and threadId.
C26_Witness ==
  /\ Len(messages) = 1
  /\ messages[1] = [NewMessage(1, <<"hello">>) EXCEPT !.text = <<"hello">>,
                                                     !.deleted = TRUE]
  /\ \E c \in Slots :
       calls[c].op = "DeleteMessage" /\ calls[c].arg = 1 /\ calls[c].res = "ok"

\* C27 as stated: a generateTitleAsync run changes nothing but its thread's
\* row (no call's notifications, no Message); when the completion backend
\* fails or returns empty output the thread keeps its name and
\* thread:title-generated is not emitted; when it returns a title for a
\* visible thread, the thread's name becomes that title and
\* thread:title-generated is emitted.
C27_TitleGeneration ==
  [][\A t \in titleTasks :
       t \notin titleTasks'
         => /\ UNCHANGED <<calls, messages, activeThreadID>>
            /\ \A u \in 1..Len(threads) : u # t => threads'[u] = threads[u]
            /\ threads'[t].titleAns \in {"unusable", "title"}
            /\ threads'[t].titleAns = "unusable"
                 => /\ threads'[t].name = threads[t].name
                    /\ ~threads'[t].titleEvent
            /\ (threads'[t].titleAns = "title" /\ ThreadVisible(threads, t))
                 => /\ threads'[t].name = "Title"
                    /\ threads'[t].titleEvent]_vars

\* C27 amended: as above, except that a title is stored and
\* thread:title-generated emitted only when Lookup and Persist of the thread
\* succeed; when one of them fails the thread keeps its name and nothing is
\* emitted.
C27_TitleGenerationUnlessStoreFails ==
  [][\A t \in titleTasks :
       t \notin titleTasks'
         => /\ UNCHANGED <<calls, messages, activeThreadID>>
            /\ \A u \in 1..Len(threads) : u # t => threads'[u] = threads[u]
            /\ threads'[t].titleAns \in {"unusable", "title"}
            /\ (threads'[t].titleAns = "unusable" \/ threads'[t].titleErr)
                 => /\ threads'[t].name = threads[t].name
                    /\ threads'[t].updatedAt = threads[t].updatedAt
                    /\ ~threads'[t].titleEvent
            /\ (threads'[t].titleAns = "title" /\ ~threads'[t].titleErr)
                 => /\ ThreadVisible(threads, t)
                    /\ threads'[t].name = "Title"
                    /\ threads'[t].titleEvent]_vars

\* C27 witness: the StopRecording that created thread 1 has completed with
\* its Message, and the title task has named the thread since.
C27_Witness ==
  /\ Len(threads) = 1 /\ titleTasks = {}
  /\ threads[1].name = "Title" /\ threads[1].titleAns = "title"
  /\ threads[1].titleEvent
  /\ \E c \in Slots :
       /\ calls[c].op = "Stop" /\ calls[c].isNew /\ calls[c].newMsg = 1
       /\ Emitted(calls[c], "completed")

\* C28: when the goroutine of an ImproveMessageText call on a visible message
\* with empty text finishes, then on a backend success the message's text has
\* been updated and message:text-improved is emitted for it, and on a backend
\* failure no Message has changed and nothing is emitted.
C28_CleanupOutcome ==
  [][\A c \in Slots :
       LET m == calls[c].arg
       IN (calls[c].op = "Improve" /\ calls'[c].id = calls[c].id
             /\ calls[c].ans = "none" /\ calls'[c].ans # "none"
             /\ m \in 1..Len(messages) /\ ~messages[m].deleted
             /\ messages[m].text = <<>>)
            => /\ calls'[c].ans = "ok"
                    => /\ messages'[m].text # <<>>
                       /\ calls'[c].event
               /\ calls'[c].ans = "fail"
                    => /\ messages' = messages
                       /\ ~calls'[c].event]_vars

\* C29: whatever title and cleanup tasks are waiting for the completion
\* backend, a StopRecording in its hand-off can finish it, a StopRecording
\* that has emitted transcription:completed has returned, every
\* ImproveMessageText call has returned, and each waiting task can finish
\* whatever the other tasks do.
C29_TasksNeverBlock ==
  /\ \A c \in Slots :
       /\ calls[c].pc = "persist" => ENABLED PersistTranscription(c)
       /\ (calls[c].op = "Stop" /\ Emitted(calls[c], "completed"))
            => calls[c].pc = "done"
       /\ calls[c].op = "Improve" => calls[c].pc = "done"
  /\ \A t \in titleTasks : ENABLED GenerateTitle(t)
  /\ \A i \in 1..Len(improveTasks) : ENABLED ImproveTask(i)

\* C29 witness: a recording has been completed and a later
\* ImproveMessageText has returned while the title task of the new thread and
\* the cleanup task are both still waiting for the completion backend.
C29_Witness ==
  /\ titleTasks = {2} /\ Len(improveTasks) = 1
  /\ Len(messages) = 2 /\ messages[2].threadId = 2
  /\ \E c \in Slots :
       /\ calls[c].op = "Improve" /\ calls[c].pc = "done"
       /\ calls[c].res = "ok" /\ calls[c].ans = "none"

\* ---------------------------------------------------------------------
\* Recorder.StopRecording step by step: the lock and the device call.
\* mu = "stopping": r.mu is held by a StopRecording that is inside
\* device.Stop; mu = "stopping, callback waiting": the same, and a frame
\* callback is parked in r.mu.Lock().
\* ---------------------------------------------------------------------

\* App.StopRecording up to Recorder.StopRecording's call of device.Stop:
\* r.mu.Lock(), isRecording and device checked, device.Stop entered with
\* the lock still held.
StopRecordingLock(c) ==
  /\ CanInvoke(c)
  /\ mu = "free"
  /\ rec.isRecording /\ rec.device # 0
  /\ callCount' = callCount + 1
  /\ calls' = [calls EXCEPT ![c] =
                 [NewCall("Stop") EXCEPT
                    !.pc = "dev_stop", !.wasRec = TRUE,
                    !.dur = callCount + 1 - rec.recordingStart]]
  /\ mu' = "stopping"
  /\ UNCHANGED <<progress, rec, devices, conns, received, want, dg, doneClosed, errFull,
                 conc, long, storeVars>>

\* The device's data callback fires while StopRecording holds r.mu: it
\* blocks in r.mu.Lock().
OnRecvFramesBlocked(d) ==
  /\ mu = "stopping"
  /\ d = rec.device
  /\ mu' = "stopping, callback waiting"
  /\ UNCHANGED <<progress, rec, devices, dg, conns, received, want, doneClosed, errFull,
                 calls, callCount, conc, long, storeVars>>

\* device.Stop returns and StopRecording runs on to its end.  On success
\* the lock is released and a parked callback appends its frame to the
\* buffer that was just reset; on failure the lock is never released.
DeviceStopReturn(c) ==
  /\ calls[c].pc = "dev_stop"
  /\ \E stopOk, sendOk \in BOOLEAN :
       LET r == RecStop(rec, stopOk)
           parked == mu = "stopping, callback waiting"
           call == [calls[c] EXCEPT !.pc = "run", !.recErr = r.err,
                                    !.audio = r.audio]
       IN /\ rec' = IF parked /\ r.mu = "free"
                      THEN [r.rec EXCEPT !.audioBuffer = 1]
                      ELSE r.rec
          /\ mu' = r.mu
          /\ devices' = IF r.rec.device = 0 THEN devices \ {rec.device}
                        ELSE devices
          /\ IF r.err # ""
               THEN /\ calls' = [calls EXCEPT ![c] = Finish(call, <<"error">>, r.mu)]
                    /\ conns' = conns
               ELSE LET b == BeginEnd([call EXCEPT !.emitted = <<"stopped">>],
                                      dg, conns, sendOk, r.mu)
                    IN /\ calls' = [calls EXCEPT ![c] = b.call]
                       /\ conns' = b.conns
  /\ UNCHANGED <<progress, received, want, dg, doneClosed, errFull, callCount, conc, long,
                 storeVars>>

NextLocks ==
  \/ \E c \in Slots : StartRecording(c)
  \/ \E c \in Slots : StopRecordingLock(c)
  \/ \E c \in Slots : DeviceStopReturn(c)
  \/ \E c \in Slots : EndStreamReturn(c)
  \/ \E c \in Slots : PersistTranscription(c)
  \/ \E k \in DOMAIN conns : LoopRecv(k)
  \/ \E k \in DOMAIN conns : LoopClose(k)
  \/ \E d \in devices : OnRecvFrames(d)
  \/ \E d \in devices : OnRecvFramesBlocked(d)

SpecLocks == Init /\ [][NextLocks]_vars

\* C30: no lock is held across a blocking device call: while a
\* StopRecording is inside device.Stop the Recorder mutex is free, so no
\* frame callback can be parked on it.
C30_NoLockAcrossDeviceStop ==
  \A c \in Slots : calls[c].pc = "dev_stop" => mu = "free"

\* C31: every Recorder operation has released r.mu when it returns, so no
\* later call blocks forever: whenever no UI call is running the mutex is
\* free, and no call is ever stuck in r.mu.Lock().
C31_MutexReleasedOnReturn ==
  /\ Quiet => mu = "free"
  /\ \A c \in Slots : calls[c].pc # "hung"

\* C32: a frame callback that lands after teardown has begun is ignored: it
\* is not left waiting for the lock of the teardown, and whenever the
\* recorder is not recording, its audio buffer is empty and its device handle
\* is nil.
C32_NoStateAfterTeardown ==
  /\ mu # "stopping, callback waiting"
  /\ ~rec.isRecording => (rec.audioBuffer = 0 /\ rec.device = 0)

\* ---------------------------------------------------------------------
\* Recording sessions with the receive loop's callback invocations logged.
\* ---------------------------------------------------------------------
NextResults ==
  \/ \E c \in Slots : RoomToStop /\ StartRecording(c)
  \/ \E c \in Slots : StopRecording(c)
  \/ \E c \in Slots : CancelRecording(c)
  \/ \E c \in Slots : EndStreamReturn(c)
  \/ \E c \in Slots : PersistTranscription(c)
  \/ \E k \in DOMAIN conns : LoopRecvLogged(k)
  \/ \E k \in DOMAIN conns : LoopClose(k)
  \/ \E d \in devices : OnRecvFrames(d)

SpecResults == Init /\ [][NextResults]_vars

\* C33: the registered callback is invoked for every interim or final
\* fragment received (and for no other frame), in the order received and
\* with the backend's finality flag; the fragments a frame adds to the
\* accumulated transcript are exactly the fragment delivered with
\* isFinal = TRUE, so the finals delivered are, in order, the fragments
\* concatenated.
C33_CallbackPerFragment ==
  \A i \in 1..Len(dg.results) :
    LET x == dg.results[i]
        fragment == x.frame.type \in {"final", "interim"} /\ x.frame.text # ""
    IN /\ x.cb.invoked = fragment
       /\ x.cb.invoked => /\ x.cb.text = x.frame.text
                          /\ x.cb.isFinal = (x.frame.type = "final")
       /\ x.added = IF x.cb.invoked /\ x.cb.isFinal THEN <<x.cb.text>> ELSE <<>>

\* C33 witness: an interim and then a final fragment have been received on
\* one connection; both were delivered and the final one is the transcript.
C33_Witness ==
  /\ Len(dg.results) = 2
  /\ dg.results[1].frame = [type |-> "interim", text |-> "hello"]
  /\ dg.results[2].frame = [type |-> "final", text |-> "world"]
  /\ dg.results[1].cb.invoked /\ dg.results[2].cb.invoked
  /\ dg.transcript = <<"world">>

\* ---------------------------------------------------------------------
\* Recording sessions with their progress tasks.
\* ---------------------------------------------------------------------
InitProgress == InitState(FALSE, FALSE, TRUE)

NextProgress ==
  \/ \E c \in Slots : StartRecording(c)
  \/ \E c \in Slots : StopRecording(c)
  \/ \E c \in Slots : CancelRecording(c)
  \/ \E c \in Slots : EndStreamReturn(c)
  \/ \E c \in Slots : PersistTranscription(c)
  \/ \E k \in DOMAIN conns : LoopRecv(k)
  \/ \E k \in DOMAIN conns : LoopClose(k)
  \/ \E d \in devices : OnRecvFrames(d)
  \/ \E p \in progress.tasks : ProgressTick(p)

SpecProgress == InitProgress /\ [][NextProgress]_vars

\* C34: at most one progress task is alive per live recording: while the
\* recorder is recording, the only progressLoop running is the one started
\* by the StartRecording call of that recording.
C34_OneProgressTaskPerRecording ==
  rec.isRecording => progress.tasks \subseteq {rec.recordingStart}

\* C35: whenever the controller is idle (the recorder is not recording and
\* no UI call is in progress) the streaming session is disconnected: the
\* service holds no connection, no connection is open and no receive loop is
\* running.
C35_IdleIsDisconnected ==
  (Quiet /\ ~rec.isRecording)
    => /\ dg.conn = 0
       /\ \A k \in DOMAIN conns : ~conns[k].open /\ conns[k].loop = "ended"

\* ---------------------------------------------------------------------
\* persistTranscription read by read: a.activeThreadID is read without a
\* lock at the nil check and again when the Message is built, and
\* SelectThread may write it in between.
\* ---------------------------------------------------------------------

\* persistTranscription up to the Message literal: the nil check of
\* a.activeThreadID, then createThreadAsync or ThreadService.Lookup; the
\* local variable thread is kept in the call.
PersistThread(c) ==
  /\ calls[c].pc = "persist"
  /\ \E dbOk \in BOOLEAN :
       LET call == calls[c]
           isNew == activeThreadID = 0
           threadOk == dbOk /\ (isNew \/ ThreadVisible(threads, activeThreadID))
           tid == IF isNew THEN Len(threads) + 1 ELSE activeThreadID
       IN /\ threads' = IF isNew /\ threadOk
                          THEN Append(threads, NewThread("Untitled Chat", Now))
                          ELSE threads
          /\ activeThreadID' = IF isNew /\ threadOk THEN tid ELSE activeThreadID
          /\ titleTasks' = IF isNew /\ threadOk THEN titleTasks \cup {tid}
                           ELSE titleTasks
          /\ calls' = [calls EXCEPT ![c] =
                         IF threadOk
                           THEN [call EXCEPT !.pc = "persist_msg", !.isNew = isNew,
                                             !.thread = tid]
                           ELSE Finish([call EXCEPT !.persErr = TRUE],
                                       <<"error">>, mu)]
  /\ UNCHANGED <<progress, recorderVars, streamVars, callCount, conc, long,
                 messages, improveTasks>>

\* persistTranscription from the Message literal on: *a.activeThreadID is
\* dereferenced again (a nil pointer panics), the Message is inserted, the
\* thread is touched, and StopRecording emits transcription:completed with
\* the thread of the first part.
PersistMessage(c) ==
  /\ calls[c].pc = "persist_msg"
  /\ \E fault \in {"none", "message", "touch"} :
       LET call == calls[c]
           tid == activeThreadID
           msgOk == fault # "message"
       IN IF tid = 0
            THEN /\ calls' = [calls EXCEPT ![c].pc = "panic"]
                 /\ UNCHANGED <<messages, threads>>
            ELSE /\ messages' = IF msgOk
                                  THEN Append(messages, NewMessage(tid, call.text))
                                  ELSE messages
                 /\ threads' = IF msgOk /\ ~call.isNew /\ fault # "touch"
                                 THEN TouchUpdatedAt(threads, tid, Now)
                                 ELSE threads
                 /\ calls' = [calls EXCEPT ![c] =
                                IF msgOk
                                  THEN Finish([call EXCEPT
                                                 !.newMsg = Len(messages) + 1,
                                                 !.touchErr = ~call.isNew /\ fault = "touch"],
                                              <<"completed">>, mu)
                                  ELSE Finish([call EXCEPT !.persErr = TRUE],
                                              <<"error">>, mu)]
  /\ UNCHANGED <<progress, recorderVars, streamVars, callCount, conc, long,
                 activeThreadID, titleTasks, improveTasks>>

\* Recording sessions during which the user may select a thread at any time.
NextSelect ==
  \/ \E c \in Slots : Quiet /\ StartRecording(c)
  \/ \E c \in Slots : Quiet /\ StopRecording(c)
  \/ \E c \in Slots : SelectThread(c)
  \/ \E c \in Slots : EndStreamReturn(c)
  \/ \E c \in Slots : PersistThread(c)
  \/ \E c \in Slots : PersistMessage(c)
  \/ \E k \in DOMAIN conns : LoopRecv(k)
  \/ \E k \in DOMAIN conns : LoopClose(k)
  \/ \E d \in devices : OnRecvFrames(d)

SpecSelect == InitConc /\ [][NextSelect]_vars

\* C36: a SelectThread during a StopRecording has no effect on it: the
\* hand-off never dereferences a cleared active-thread pointer, and the
\* Message a Stop has persisted belongs to the Thread reported in its
\* transcription:completed event.
C36_SelectDoesNotAffectStop ==
  \A c \in Slots :
    /\ calls[c].pc # "panic"
    /\ (calls[c].op = "Stop" /\ Emitted(calls[c], "completed"))
         => messages[calls[c].newMsg].threadId = calls[c].thread

\* ---------------------------------------------------------------------
\* generateTitleAsync read by read: Lookup reads the whole row, Persist
\* writes name, pinned and updated_at from the struct that was read.
\* ---------------------------------------------------------------------

\* generateTitleAsync up to its Lookup: Prompt answers; an error or an empty
\* title ends the task, and so does a failed Lookup.
TitleLookup(t) ==
  /\ t \in titleTasks
  /\ threads[t].titleRead = "none"
  /\ \E out \in {"fail", "empty", "title"}, dbOk \in BOOLEAN :
       IF out = "title" /\ ~ThreadLookup(threads, t, dbOk).err
         THEN /\ threads' = [threads EXCEPT
                               ![t].titleRead = IF threads[t].pinned THEN "pinned"
                                                ELSE "unpinned"]
              /\ titleTasks' = titleTasks
         ELSE /\ threads' = TitleGenerated(threads, t, out, FALSE, Now)
              /\ titleTasks' = titleTasks \ {t}
  /\ UNCHANGED <<progress, recorderVars, streamVars, calls, callCount, conc,
                 long, activeThreadID, messages, improveTasks>>

\* generateTitleAsync from thread.Name = title on: Persist of the struct
\* read by Lookup, then thread:title-generated.
TitlePersist(t) ==
  /\ t \in titleTasks
  /\ threads[t].titleRead # "none"
  /\ titleTasks' = titleTasks \ {t}
  /\ \E dbOk \in BOOLEAN :
       LET held == [id |-> t, name |-> "Title",
                    pinned |-> threads[t].titleRead = "pinned", deleted |-> FALSE]
           p == ThreadPersist(threads, held, Now, dbOk)
       IN threads' = [p.ts EXCEPT ![t].titleAns = "title",
                                  ![t].titleErr = p.err,
                                  ![t].titleEvent = ~p.err,
                                  ![t].titleRead = "none"]
  /\ UNCHANGED <<progress, recorderVars, streamVars, calls, callCount, conc,
                 long, activeThreadID, messages, improveTasks>>

\* A recording that creates a thread, and the user pinning or renaming
\* threads while its title is being generated.
NextPins ==
  \/ \E c \in Slots : StartRecording(c)
  \/ \E c \in Slots : StopRecording(c)
  \/ \E c \in Slots : EndStreamReturn(c)
  \/ \E c \in Slots : PersistTranscription(c)
  \/ \E c \in Slots : SetThreadPinned(c)
  \/ \E c \in Slots : RenameThread(c)
  \/ \E t \in titleTasks : TitleLookup(t)
  \/ \E t \in titleTasks : TitlePersist(t)
  \/ \E k \in DOMAIN conns : LoopRecv(k)
  \/ \E k \in DOMAIN conns : LoopClose(k)
  \/ \E d \in devices : OnRecvFrames(d)

SpecPins == Init /\ [][NextPins]_vars

\* C37: a successful SetThreadPinned is not undone by a background task: no
\* step of a title-generation task changes the pinned flag of any thread.
C37_TitleTaskKeepsPinned ==
  [][(titleTasks' # titleTasks \/ \E t \in titleTasks :
                                     threads'[t].titleRead # threads[t].titleRead)
       => \A i \in 1..Len(threads) : threads'[i].pinned = threads[i].pinned]_vars

\* ---------------------------------------------------------------------
\* The hand-off of a transcript with the title task it starts: the task is
\* started inside createThreadAsync, before the Message is stored and before
\* StopRecording emits transcription:completed.
\* ---------------------------------------------------------------------
NextHandoff ==
  \/ \E c \in Slots : StartRecording(c)
  \/ \E c \in Slots : StopRecording(c)
  \/ \E c \in Slots : EndStreamReturn(c)
  \/ \E c \in Slots : PersistThread(c)
  \/ \E c \in Slots : PersistMessage(c)
  \/ \E t \in titleTasks : GenerateTitle(t)
  \/ \E k \in DOMAIN conns : LoopRecv(k)
  \/ \E k \in DOMAIN conns : LoopClose(k)
  \/ \E d \in devices : OnRecvFrames(d)

SpecHandoff == Init /\ [][NextHandoff]_vars

\* C38: thread:title-generated is never emitted for a new thread before the
\* transcription:completed that announces it: it is not emitted while the
\* StopRecording that created the thread is still in its hand-off.
C38_TitleAfterCompleted ==
  [][\A t \in 1..Len(threads) :
       (~threads[t].titleEvent /\ threads'[t].titleEvent)
         => ~\E c \in Slots :
               /\ calls[c].op = "Stop" /\ calls[c].pc = "persist_msg"
               /\ calls[c].isNew /\ calls[c].thread = t]_vars

\* C39: improvements are processed once per message: no two cleanup
\* goroutines (each one invocation of the completion backend) ever hold the
\* same message.
C39_OneImprovementPerMessage ==
  \A i, j \in 1..Len(improveTasks) :
    (i # j /\ improveTasks[i].msg.id # 0)
      => improveTasks[i].msg.id # improveTasks[j].msg.id

\* C40: when StopRecording and CancelRecording race on one recording, the
\* stream is ended by one EndStream execution: a Stop and a Cancel never
\* wait in EndStream on the same done channel, and neither of them uses the
\* connection handle after the other has cleared it.
C40_StopCancelOneEndStream ==
  \A c, d \in Slots :
    (calls[c].op = "Stop" /\ calls[d].op = "Cancel")
      => /\ ~(/\ calls[c].pc = "end_wait" /\ calls[d].pc = "end_wait"
              /\ calls[c].wd = calls[d].wd)
         /\ ~(calls[c].pc = "panic" /\ calls[d].ended = "ok")
         /\ ~(calls[d].pc = "panic" /\ calls[c].ended = "ok")

====
